---- MODULE Spec2Model ----
(***************************************************************************)
(* Log-record correlation injection of ddtrace.contrib.logging (patch.py). *)
(*                                                                         *)
(* The state is the process-wide state patch()/unpatch() toggle (the flag  *)
(* logging._datadog_patch and the function installed as Logger.makeRecord),*)
(* the position of every thread inside patch()/unpatch(), the collaborators*)
(* the hook reads (ddtrace.config and each tracer's current span), and the *)
(* outcome of the most recent Logger.makeRecord call.                      *)
(***************************************************************************)
EXTENDS Integers, Sequences, FiniteSets, TLC

VARIABLES
    datadog_patch,   \* logging._datadog_patch (absent reads as False, patch.py:73)
    makeRecord,      \* Logger.makeRecord: number of _w_makeRecord layers around the original
    pc,              \* per thread: where it stands inside patch() / unpatch()
    original,        \* per thread: the attribute value _w / _u read before writing it back
    calls,           \* history: the patch()/unpatch() calls in invocation order
    config,          \* ddtrace.config: env, version and logging.tracer
    current_span,    \* per tracer: what tracer.current_span() answers
    last,            \* outcome of the most recent Logger.makeRecord call
    hook             \* per thread: its invocation of _w_makeRecord, statement by statement

vars == <<datadog_patch, makeRecord, pc, original, calls, config, current_span, last, hook>>

lifecycle == <<datadog_patch, makeRecord, pc, original, calls>>

collaborators == <<config, current_span>>

----------------------------------------------------------------------------
(* Bounds of the model *)

\* threads that may call patch(), unpatch() and the logger concurrently
NThreads == 2

\* patch()/unpatch() calls in one behaviour
MaxCalls == 4

\* span and trace identifiers range over 0..MaxId (0 is "unset")
MaxId == 2

Threads == 1..NThreads

----------------------------------------------------------------------------
(* Constants of patch.py *)

RECORD_ATTR_ENV == "dd.env"

RECORD_ATTR_VERSION == "dd.version"

RECORD_ATTR_TRACE_ID == "dd.trace_id"

RECORD_ATTR_SPAN_ID == "dd.span_id"

RECORD_ATTR_VALUE_ZERO == 0

RECORD_ATTR_VALUE_EMPTY == ""

\* tag keys imported from ddtrace.constants
VERSION_KEY == "version"

ENV_KEY == "env"

SERVICE_VERSION_KEY == "service.version"

\* Python's None; no string of the value domains below equals it
None == "None"

\* the process-default tracer, ddtrace.tracer
ddtrace_tracer == "ddtrace.tracer"

\* a tracer an application stores in config.logging.tracer
custom_tracer == "custom.tracer"

Tracers == {ddtrace_tracer, custom_tracer}

----------------------------------------------------------------------------
(* Values of the collaborators *)

TagKeys == {VERSION_KEY, SERVICE_VERSION_KEY, ENV_KEY}

TagValues == {"", "1.2.3", "prod-staging"}

\* span.meta: string keys to string values, any subset of the consulted keys
Metas == UNION {[D -> TagValues] : D \in SUBSET TagKeys}

NoSpan == [kind |-> "none"]

Raises == [kind |-> "raises"]

Spans == [kind : {"span"}, trace_id : 0..MaxId, span_id : 0..MaxId, meta : Metas]

\* what tracer.current_span() can do: answer None, answer a span, or raise
SpanAnswers == {NoSpan, Raises} \cup Spans

ConfigEnvs == {None, "", "prod"}

ConfigVersions == {None, "", "23.45.6"}

Configs == [env : ConfigEnvs, version : ConfigVersions, logging_tracer : {None, custom_tracer}]

\* a span carrying every consulted tag, current on the tracer the hook must not ask
DecoySpan ==
    [kind |-> "span", trace_id |-> MaxId, span_id |-> 1,
     meta |-> [k \in TagKeys |-> "1.2.3"]]

\* faulty variant: the override slot is ignored
Selected_default_only(c) == ddtrace_tracer

\* `c.logging.tracer or ddtrace.tracer` (patch.py:37)
Selected(c) == IF c.logging_tracer # None THEN c.logging_tracer ELSE ddtrace_tracer

\* every configuration with every answer of the selected tracer; the other
\* tracer has no span, raises, or holds the decoy span
Envs ==
    { e \in [config : Configs, current_span : [Tracers -> SpanAnswers]] :
        \A tr \in Tracers \ {Selected(e.config)} :
            e.current_span[tr] \in {NoSpan, Raises, DecoySpan} }

Span(tid, sid, m) == [kind |-> "span", trace_id |-> tid, span_id |-> sid, meta |-> m]

NoTags == [k \in {} |-> ""]

Tag(k, v) == [x \in {k} |-> v]

\* the scenarios of tests/contrib/logging/test_logging.py, with the test
\* tracer installed as config.logging.tracer
ScenarioEnvs ==
    { [config |-> [env |-> "prod", version |-> "23.45.6", logging_tracer |-> custom_tracer],
       current_span |-> [tr \in Tracers |-> NoSpan]],
      [config |-> [env |-> None, version |-> None, logging_tracer |-> custom_tracer],
       current_span |-> [tr \in Tracers |->
            IF tr = custom_tracer THEN Span(1, MaxId, Tag(ENV_KEY, "prod-staging")) ELSE NoSpan]],
      [config |-> [env |-> "prod", version |-> "23.45.6", logging_tracer |-> None],
       current_span |-> [tr \in Tracers |->
            IF tr = ddtrace_tracer THEN Span(MaxId, 1, NoTags) ELSE NoSpan]] }

----------------------------------------------------------------------------
(* Log records *)

\* the record the original Logger.makeRecord builds: its own attributes plus
\* the caller's `extra` mapping
Extras == {NoTags, Tag(RECORD_ATTR_ENV, "user")}

OriginalMakeRecord(extra) ==
    [k \in {"msg"} \cup DOMAIN extra |-> IF k \in DOMAIN extra THEN extra[k] ELSE "Hello!"]

setattr(record, key, value) ==
    [k \in DOMAIN record \cup {key} |-> IF k = key THEN value ELSE record[k]]

\* Python truthiness of an optional string
Truthy(value) == value # None /\ value # ""

\* faulty variant: a falsy value leaves the attribute unset
_inject_or_default_skip(record, key, value) ==
    IF ~Truthy(value) THEN record ELSE setattr(record, key, value)

\* faulty variant: the value is stored as it is, None included
_inject_or_default_raw(record, key, value) == setattr(record, key, value)

_inject_or_default(record, key, value) ==
    setattr(record, key, IF ~Truthy(value) THEN RECORD_ATTR_VALUE_EMPTY ELSE value)

\* span.get_tag(key)
get_tag(span, key) == IF key \in DOMAIN span.meta THEN span.meta[key] ELSE None

\* `span and ...`: a span object is truthy, None is not
IsSpan(span) == span.kind = "span"

\* faulty variant: the service-version tag is looked up before the version tag
ResolveVersion_secondary_first(span) ==
    IF IsSpan(span) /\ SERVICE_VERSION_KEY \in DOMAIN span.meta
    THEN get_tag(span, SERVICE_VERSION_KEY)
    ELSE IF IsSpan(span) /\ VERSION_KEY \in DOMAIN span.meta
    THEN get_tag(span, VERSION_KEY)
    ELSE config.version

\* faulty variant: an empty version tag falls back to the configuration
ResolveVersion_or_config(span) ==
    IF IsSpan(span) /\ VERSION_KEY \in DOMAIN span.meta /\ Truthy(get_tag(span, VERSION_KEY))
    THEN get_tag(span, VERSION_KEY)
    ELSE config.version

\* patch.py:46-49
ResolveVersion(span) ==
    IF IsSpan(span) /\ VERSION_KEY \in DOMAIN span.meta
    THEN get_tag(span, VERSION_KEY)
    ELSE config.version

\* faulty variant: a configured environment wins over the span's tag
ResolveEnv_config_first(span) ==
    IF Truthy(config.env) THEN config.env
    ELSE IF IsSpan(span) /\ ENV_KEY \in DOMAIN span.meta
    THEN get_tag(span, ENV_KEY)
    ELSE config.env

\* patch.py:50-53
ResolveEnv(span) ==
    IF IsSpan(span) /\ ENV_KEY \in DOMAIN span.meta
    THEN get_tag(span, ENV_KEY)
    ELSE config.env

\* faulty variant: one non-zero identifier is enough (`or` for `and`)
InjectIds_either(record, span) ==
    IF IsSpan(span) /\ (span.trace_id # 0 \/ span.span_id # 0)
    THEN setattr(setattr(record, RECORD_ATTR_TRACE_ID, span.trace_id),
                 RECORD_ATTR_SPAN_ID, span.span_id)
    ELSE setattr(setattr(record, RECORD_ATTR_TRACE_ID, RECORD_ATTR_VALUE_ZERO),
                 RECORD_ATTR_SPAN_ID, RECORD_ATTR_VALUE_ZERO)

\* faulty variant: the identifiers are always written as zero
InjectIds_zero(record, span) ==
    setattr(setattr(record, RECORD_ATTR_TRACE_ID, RECORD_ATTR_VALUE_ZERO),
            RECORD_ATTR_SPAN_ID, RECORD_ATTR_VALUE_ZERO)

\* patch.py:58-63
InjectIds(record, span) ==
    IF IsSpan(span) /\ span.trace_id # 0 /\ span.span_id # 0
    THEN setattr(setattr(record, RECORD_ATTR_TRACE_ID, span.trace_id),
                 RECORD_ATTR_SPAN_ID, span.span_id)
    ELSE setattr(setattr(record, RECORD_ATTR_TRACE_ID, RECORD_ATTR_VALUE_ZERO),
                 RECORD_ATTR_SPAN_ID, RECORD_ATTR_VALUE_ZERO)

\* the body of _w_makeRecord after func() returned `record` and
\* tracer.current_span() returned `span`
Inject(record, span) ==
    InjectIds(
        _inject_or_default(
            _inject_or_default(record, RECORD_ATTR_VERSION, ResolveVersion(span)),
            RECORD_ATTR_ENV, ResolveEnv(span)),
        span)

\* the tracer the hook asks, and its answer (patch.py:37-38)
HookTracer == Selected(config)

\* the outcome of a call: a returned record, or an exception and no record;
\* hooks counts the layers of _w_makeRecord entered, built the runs of the
\* original construction, written the attributes the hook set
Returned(record, hooks, written, built) ==
    [raised |-> FALSE, record |-> record, hooks |-> hooks, written |-> written,
     built |-> built]

Raised(hooks, built) ==
    [raised |-> TRUE, record |-> NoTags, hooks |-> hooks, written |-> {},
     built |-> built]

DDFields == {RECORD_ATTR_ENV, RECORD_ATTR_VERSION, RECORD_ATTR_TRACE_ID, RECORD_ATTR_SPAN_ID}

\* faulty variant: the fields are written first and the attributes of the
\* original construction are laid over them
_w_makeRecord_inject_first(inner) ==
    IF inner.raised THEN inner
    ELSE IF current_span[HookTracer] = Raises THEN Raised(inner.hooks + 1, inner.built)
    ELSE LET injected == Inject(NoTags, current_span[HookTracer])
         IN  Returned([k \in DOMAIN injected \cup DOMAIN inner.record |->
                          IF k \in DOMAIN inner.record THEN inner.record[k]
                          ELSE injected[k]],
                      inner.hooks + 1, DDFields, inner.built)

\* one layer of the hook around the outcome `inner` of the function it wraps:
\* an exception of func or of current_span() propagates
_w_makeRecord(inner) ==
    IF inner.raised THEN inner
    ELSE IF current_span[HookTracer] = Raises THEN Raised(inner.hooks + 1, inner.built)
    ELSE Returned(Inject(inner.record, current_span[HookTracer]),
                  inner.hooks + 1, DDFields, inner.built)

\* calling a function that is `depth` layers of _w_makeRecord around the original
RECURSIVE CallMakeRecord(_, _)
CallMakeRecord(depth, extra) ==
    IF depth = 0 THEN Returned(OriginalMakeRecord(extra), 0, {}, 1)
    ELSE _w_makeRecord(CallMakeRecord(depth - 1, extra))

\* a thread that is not inside _w_makeRecord and holds no record from it
NotInHook == [at |-> "out", extra |-> NoTags, record |-> NoTags, span |-> NoSpan]

NoCall == [called |-> FALSE]

\* a thread outside patch()/unpatch() logs: Logger.makeRecord(..., extra)
Log(t) ==
    /\ pc[t] = "idle"
    /\ \E extra \in Extras :
        last' = [called |-> TRUE, extra |-> extra,
                 active |-> datadog_patch, installed |-> makeRecord, calls |-> calls,
                 config |-> config,
                 span |-> current_span[HookTracer],
                 out |-> CallMakeRecord(makeRecord, extra)]
    /\ UNCHANGED <<lifecycle, collaborators, hook>>

----------------------------------------------------------------------------
(* One invocation of _w_makeRecord per thread, one step per statement, for *)
(* threads that log at the same time through the one installed layer       *)

\* patch.py:26: the wrapper is entered and func() builds the record
hook_func(t) ==
    /\ pc[t] = "idle"
    /\ makeRecord = 1
    /\ hook[t].at \in {"out", "returned", "raised"}
    /\ \E extra \in Extras :
        hook' = [hook EXCEPT ![t] = [at |-> "tracer", extra |-> extra,
                                     record |-> OriginalMakeRecord(extra),
                                     span |-> NoSpan]]
    /\ UNCHANGED <<lifecycle, collaborators, last>>

\* patch.py:37-38: the tracer is selected and asked; its exception propagates
hook_current_span(t) ==
    /\ hook[t].at = "tracer"
    /\ hook' = [hook EXCEPT ![t] =
            IF current_span[HookTracer] = Raises
            THEN [@ EXCEPT !.at = "raised", !.record = NoTags]
            ELSE [@ EXCEPT !.at = "version", !.span = current_span[HookTracer]]]
    /\ UNCHANGED <<lifecycle, collaborators, last>>

\* faulty variant: the resolved version is also stored in ddtrace.config
hook_version_caches(t) ==
    /\ hook[t].at = "version"
    /\ hook' = [hook EXCEPT ![t] =
            [@ EXCEPT !.at = "env",
                      !.record = _inject_or_default(@, RECORD_ATTR_VERSION,
                                                    ResolveVersion(hook[t].span))]]
    /\ config' = [config EXCEPT !.version = ResolveVersion(hook[t].span)]
    /\ UNCHANGED <<lifecycle, current_span, last>>

\* patch.py:46-49
hook_version(t) ==
    /\ hook[t].at = "version"
    /\ hook' = [hook EXCEPT ![t] =
            [@ EXCEPT !.at = "env",
                      !.record = _inject_or_default(@, RECORD_ATTR_VERSION,
                                                    ResolveVersion(hook[t].span))]]
    /\ UNCHANGED <<lifecycle, collaborators, last>>

\* patch.py:50-53
hook_env(t) ==
    /\ hook[t].at = "env"
    /\ hook' = [hook EXCEPT ![t] =
            [@ EXCEPT !.at = "ids",
                      !.record = _inject_or_default(@, RECORD_ATTR_ENV,
                                                    ResolveEnv(hook[t].span))]]
    /\ UNCHANGED <<lifecycle, collaborators, last>>

\* patch.py:58-65: the identifiers are written and the record is returned
hook_ids(t) ==
    /\ hook[t].at = "ids"
    /\ hook' = [hook EXCEPT ![t] =
            [@ EXCEPT !.at = "returned", !.record = InjectIds(@, hook[t].span)]]
    /\ UNCHANGED <<lifecycle, collaborators, last>>

hook_step(t) ==
    hook_func(t) \/ hook_current_span(t) \/ hook_version(t) \/ hook_env(t) \/ hook_ids(t)

----------------------------------------------------------------------------
(* patch() and unpatch(), one step per shared read or write *)

\* vendor wrapt's wrap_function_wrapper / utils.wrappers.unwrap on the value read
Wrap(f) == f + 1

Unwrap(f) == IF f > 0 THEN f - 1 ELSE f

\* faulty variant: no early return when the flag is already set
patch_check_always(t) ==
    /\ pc[t] = "idle"
    /\ Len(calls) < MaxCalls
    /\ calls' = Append(calls, "patch")
    /\ pc' = [pc EXCEPT ![t] = "patch_set"]
    /\ UNCHANGED <<datadog_patch, makeRecord, original, collaborators, last, hook>>

\* patch.py:73-74: the call, its read of the flag and the early return
patch_check(t) ==
    /\ pc[t] = "idle"
    /\ Len(calls) < MaxCalls
    /\ calls' = Append(calls, "patch")
    /\ pc' = [pc EXCEPT ![t] = IF datadog_patch THEN "idle" ELSE "patch_set"]
    /\ UNCHANGED <<datadog_patch, makeRecord, original, collaborators, last, hook>>

\* patch.py:75
patch_set(t) ==
    /\ pc[t] = "patch_set"
    /\ datadog_patch' = TRUE
    /\ pc' = [pc EXCEPT ![t] = "patch_wrap"]
    /\ UNCHANGED <<makeRecord, original, calls, collaborators, last, hook>>

\* patch.py:77, _w reads the attribute it is about to wrap
patch_wrap(t) ==
    /\ pc[t] = "patch_wrap"
    /\ original' = [original EXCEPT ![t] = makeRecord]
    /\ pc' = [pc EXCEPT ![t] = "patch_install"]
    /\ UNCHANGED <<datadog_patch, makeRecord, calls, collaborators, last, hook>>

\* patch.py:77, _w stores the wrapper around what it read; patch() returns
patch_install(t) ==
    /\ pc[t] = "patch_install"
    /\ makeRecord' = Wrap(original[t])
    /\ original' = [original EXCEPT ![t] = 0]
    /\ pc' = [pc EXCEPT ![t] = "idle"]
    /\ UNCHANGED <<datadog_patch, calls, collaborators, last, hook>>

\* patch.py:81: the call and its read of the flag
unpatch_check(t) ==
    /\ pc[t] = "idle"
    /\ Len(calls) < MaxCalls
    /\ calls' = Append(calls, "unpatch")
    /\ pc' = [pc EXCEPT ![t] = IF datadog_patch THEN "unpatch_set" ELSE "idle"]
    /\ UNCHANGED <<datadog_patch, makeRecord, original, collaborators, last, hook>>

\* faulty variant: the flag is not cleared
unpatch_set_keep(t) ==
    /\ pc[t] = "unpatch_set"
    /\ pc' = [pc EXCEPT ![t] = "unpatch_unwrap"]
    /\ UNCHANGED <<datadog_patch, makeRecord, original, calls, collaborators, last, hook>>

\* patch.py:82
unpatch_set(t) ==
    /\ pc[t] = "unpatch_set"
    /\ datadog_patch' = FALSE
    /\ pc' = [pc EXCEPT ![t] = "unpatch_unwrap"]
    /\ UNCHANGED <<makeRecord, original, calls, collaborators, last, hook>>

\* patch.py:84, _u reads the attribute
unpatch_unwrap(t) ==
    /\ pc[t] = "unpatch_unwrap"
    /\ original' = [original EXCEPT ![t] = makeRecord]
    /\ pc' = [pc EXCEPT ![t] = "unpatch_restore"]
    /\ UNCHANGED <<datadog_patch, makeRecord, calls, collaborators, last, hook>>

\* faulty variant: unpatch() returns without unwrapping
unpatch_restore_skip(t) ==
    /\ pc[t] = "unpatch_restore"
    /\ original' = [original EXCEPT ![t] = 0]
    /\ pc' = [pc EXCEPT ![t] = "idle"]
    /\ UNCHANGED <<datadog_patch, makeRecord, calls, collaborators, last, hook>>

\* patch.py:84, _u stores what the wrapper it read wraps; unpatch() returns
unpatch_restore(t) ==
    /\ pc[t] = "unpatch_restore"
    /\ makeRecord' = Unwrap(original[t])
    /\ original' = [original EXCEPT ![t] = 0]
    /\ pc' = [pc EXCEPT ![t] = "idle"]
    /\ UNCHANGED <<datadog_patch, calls, collaborators, last, hook>>

patch(t) == patch_check(t) \/ patch_set(t) \/ patch_wrap(t) \/ patch_install(t)

unpatch(t) == unpatch_check(t) \/ unpatch_set(t) \/ unpatch_unwrap(t) \/ unpatch_restore(t)

----------------------------------------------------------------------------
(* Specifications *)

\* the process after import: not patched, nobody inside patch()/unpatch()
InitLifecycle ==
    /\ datadog_patch = FALSE
    /\ makeRecord = 0
    /\ pc = [t \in Threads |-> "idle"]
    /\ original = [t \in Threads |-> 0]
    /\ calls = <<>>
    /\ last = NoCall
    /\ hook = [t \in Threads |-> NotInHook]

InitCollaborators(E) ==
    \E e \in E :
        /\ config = e.config
        /\ current_span = e.current_span

\* threads call patch(), unpatch() and the logger in any interleaving
Init == InitLifecycle /\ InitCollaborators(ScenarioEnvs)

Next == \E t \in Threads : patch(t) \/ unpatch(t) \/ Log(t)

Spec == Init /\ [][Next]_vars

\* one thread: every call returns before the next one starts
SeqNext == patch(1) \/ unpatch(1) \/ Log(1)

SeqSpec == Init /\ [][SeqNext]_vars

\* the hook on every input: the process right after import or right after one
\* patch(), with any configuration and any answer of the tracers
ResolveInit ==
    /\ InitCollaborators(Envs)
    /\ pc = [t \in Threads |-> "idle"]
    /\ original = [t \in Threads |-> 0]
    /\ last = NoCall
    /\ hook = [t \in Threads |-> NotInHook]
    /\ \/ datadog_patch = FALSE /\ makeRecord = 0 /\ calls = <<>>
       \/ datadog_patch = TRUE /\ makeRecord = 1 /\ calls = <<"patch">>

ResolveNext == Log(1)

ResolveSpec == ResolveInit /\ [][ResolveNext]_vars

\* the application stores a tracer in, or clears, config.logging.tracer
override_config(tracer) ==
    /\ config.logging_tracer # tracer
    /\ config' = [config EXCEPT !.logging_tracer = tracer]
    /\ UNCHANGED <<lifecycle, current_span, last, hook>>

\* tracer selection: patched once, config.logging.tracer starting at its
\* registered default None (patch.py:16), any answers of the two tracers
TracerInit ==
    /\ InitCollaborators({e \in Envs : e.config.logging_tracer = None})
    /\ pc = [t \in Threads |-> "idle"]
    /\ original = [t \in Threads |-> 0]
    /\ last = NoCall
    /\ hook = [t \in Threads |-> NotInHook]
    /\ datadog_patch = TRUE /\ makeRecord = 1 /\ calls = <<"patch">>

TracerNext == Log(1) \/ \E tracer \in {None, custom_tracer} : override_config(tracer)

TracerSpec == TracerInit /\ [][TracerNext]_vars

\* concurrent logging: patched once; a few configurations and answers of the
\* selected tracer, the other tracer holding the decoy span
FrameEnvs ==
    { e \in Envs :
        /\ e.config.env = "prod" /\ e.config.version = None
        /\ \A tr \in Tracers \ {Selected(e.config)} : e.current_span[tr] = DecoySpan
        /\ LET answer == e.current_span[Selected(e.config)]
           IN  IsSpan(answer) =>
                /\ answer.trace_id = MaxId /\ answer.span_id \in {0, 1}
                /\ \A k \in DOMAIN answer.meta : answer.meta[k] = "1.2.3" }

FrameInit ==
    /\ InitCollaborators(FrameEnvs)
    /\ pc = [t \in Threads |-> "idle"]
    /\ original = [t \in Threads |-> 0]
    /\ last = NoCall
    /\ hook = [t \in Threads |-> NotInHook]
    /\ datadog_patch = TRUE /\ makeRecord = 1 /\ calls = <<"patch">>

FrameNext == \E t \in Threads : hook_step(t)

FrameSpec == FrameInit /\ [][FrameNext]_vars

TypeOK ==
    /\ datadog_patch \in BOOLEAN
    /\ makeRecord \in 0..MaxCalls
    /\ \A t \in Threads : original[t] \in 0..MaxCalls
    /\ Len(calls) <= MaxCalls

----------------------------------------------------------------------------
(* Vocabulary of the properties *)

AllIdle == \A t \in Threads : pc[t] = "idle"

LastCall(s) == s[Len(s)]

\* the most recent makeRecord call went through at least one hook layer and
\* returned a record
Augmented == last.called /\ last.out.hooks >= 1 /\ ~last.out.raised

rec == last.out.record

\* the documented default of an absent configuration value
OrEmpty(value) == IF value = None THEN "" ELSE value

----------------------------------------------------------------------------
(* C1: every record returned through the installed hook carries the four   *)
(* fields dd.env, dd.version, dd.trace_id and dd.span_id, whatever the     *)
(* current span is; with no current span the identifiers are 0 and an      *)
(* absent configuration value gives "", never a missing field.             *)
C1_FourFieldsAlways ==
    Augmented =>
        /\ DDFields \subseteq DOMAIN rec
        /\ rec[RECORD_ATTR_ENV] # None /\ rec[RECORD_ATTR_VERSION] # None
        /\ last.span = NoSpan =>
            /\ rec[RECORD_ATTR_TRACE_ID] = 0 /\ rec[RECORD_ATTR_SPAN_ID] = 0
            /\ last.config.env = None => rec[RECORD_ATTR_ENV] = ""
            /\ last.config.version = None => rec[RECORD_ATTR_VERSION] = ""

C1_Witness ==
    /\ Augmented
    /\ last.span = NoSpan
    /\ last.config.env = None /\ last.config.version = None
    /\ DDFields \subseteq DOMAIN rec
    /\ rec[RECORD_ATTR_ENV] = "" /\ rec[RECORD_ATTR_TRACE_ID] = 0

(* C2: when patch() calls, and only patch() calls, have been made from the *)
(* inactive state and all have returned, Logger.makeRecord carries exactly *)
(* one layer of _w_makeRecord and the flag is set.                         *)
C2_ConcurrentEnableOnce ==
    (AllIdle /\ calls # <<>> /\ \A i \in 1..Len(calls) : calls[i] = "patch")
        => (makeRecord = 1 /\ datadog_patch)

(* C3: once every patch()/unpatch() call has returned, the flag is set     *)
(* exactly when makeRecord is wrapped, and by at most one layer.           *)
C3_ConvergesConsistent ==
    AllIdle => ((datadog_patch <=> makeRecord >= 1) /\ makeRecord <= 1)

(* C4: after n >= 1 patch() calls in a row the flag is set and makeRecord  *)
(* carries exactly one layer, so a record built then passes the hook once; *)
(* one unpatch() after them leaves the original makeRecord.                *)
C4_EnableIdempotent ==
    /\ (AllIdle /\ calls # <<>> /\ LastCall(calls) = "patch")
            => (datadog_patch /\ makeRecord = 1)
    /\ (last.called /\ last.calls # <<>> /\ LastCall(last.calls) = "patch")
            => last.out.hooks = 1
    /\ (AllIdle /\ Len(calls) >= 2 /\ LastCall(calls) = "unpatch"
            /\ calls[Len(calls) - 1] = "patch")
            => (~datadog_patch /\ makeRecord = 0)

C4_Witness ==
    /\ AllIdle
    /\ Len(calls) >= 3
    /\ calls[1] = "patch" /\ calls[2] = "patch" /\ calls[3] = "patch"
    /\ datadog_patch /\ makeRecord = 1
    /\ last.called /\ last.calls = calls /\ last.out.hooks = 1

(* C5: once unpatch() has returned and no patch() was called since, the    *)
(* flag is clear, makeRecord is the original function, and a record built  *)
(* then is the original's record with no field written by the hook;        *)
(* unpatch() called in the inactive state returns at once and changes      *)
(* neither the flag nor makeRecord.                                        *)
C5_DisableReverts ==
    /\ [](/\ (AllIdle /\ calls # <<>> /\ LastCall(calls) = "unpatch")
                => (~datadog_patch /\ makeRecord = 0)
          /\ (last.called /\ last.calls # <<>> /\ LastCall(last.calls) = "unpatch")
                => /\ last.out.hooks = 0
                   /\ last.out.written = {}
                   /\ ~last.out.raised
                   /\ last.out.record = OriginalMakeRecord(last.extra))
    /\ [][\A t \in Threads :
            (pc[t] = "idle" /\ ~datadog_patch /\ calls' = Append(calls, "unpatch"))
                => (pc'[t] = "idle" /\ UNCHANGED <<datadog_patch, makeRecord>>)]_vars

C5_Witness ==
    /\ AllIdle
    /\ Len(calls) >= 3
    /\ calls[1] = "patch" /\ calls[2] = "unpatch" /\ calls[3] = "unpatch"
    /\ \A i \in 1..Len(calls) : i > 2 => calls[i] = "unpatch"
    /\ ~datadog_patch /\ makeRecord = 0
    /\ last.called /\ last.calls = calls
    /\ last.out.written = {} /\ DOMAIN last.out.record \cap DDFields = {}

\* the last transition of the two-state machine that changed its state:
\* patch() when inactive enables, unpatch() when active disables
RECURSIVE LastEffective(_)
LastEffective(s) ==
    IF s = <<>> THEN "none"
    ELSE LET before == LastEffective(SubSeq(s, 1, Len(s) - 1))
         IN  IF LastCall(s) = "patch"
             THEN "enable"
             ELSE IF before = "enable" THEN "disable" ELSE before

(* C6: after any sequence of patch()/unpatch() calls made one after the    *)
(* other, makeRecord carries one layer if the last effective transition    *)
(* was an enable and none otherwise, and the flag agrees; a record built   *)
(* after patch(); unpatch(); patch() passes the hook once and carries the  *)
(* four fields.                                                            *)
C6_NoStackingAcrossCycles ==
    /\ AllIdle =>
        /\ makeRecord = (IF LastEffective(calls) = "enable" THEN 1 ELSE 0)
        /\ datadog_patch = (LastEffective(calls) = "enable")
    /\ (last.called /\ LastEffective(last.calls) = "enable") =>
        /\ last.out.hooks = 1
        /\ ~last.out.raised => last.out.written = DDFields
    /\ (last.called /\ LastEffective(last.calls) # "enable") =>
        last.out.hooks = 0

C6_Witness ==
    /\ AllIdle
    /\ Len(calls) >= 3
    /\ calls[1] = "patch" /\ calls[2] = "unpatch" /\ calls[3] = "patch"
    /\ makeRecord = 1 /\ datadog_patch
    /\ last.called /\ last.calls = <<"patch", "unpatch", "patch">>
    /\ last.out.hooks = 1 /\ DDFields \subseteq DOMAIN last.out.record

(* C7: with a current span, an environment tag on the span decides dd.env  *)
(* and a version tag decides dd.version, whatever config.env and           *)
(* config.version are; each field is resolved from its own tag only: with  *)
(* no environment tag dd.env is config.env (or ""), with no version tag    *)
(* dd.version is config.version (or ""), whatever the other tag is.        *)
C7_SpanTagOverConfig ==
    (Augmented /\ IsSpan(last.span)) =>
        LET meta == last.span.meta
        IN  /\ ENV_KEY \in DOMAIN meta => rec[RECORD_ATTR_ENV] = meta[ENV_KEY]
            /\ VERSION_KEY \in DOMAIN meta => rec[RECORD_ATTR_VERSION] = meta[VERSION_KEY]
            /\ ENV_KEY \notin DOMAIN meta => rec[RECORD_ATTR_ENV] = OrEmpty(last.config.env)
            /\ (VERSION_KEY \notin DOMAIN meta /\ SERVICE_VERSION_KEY \notin DOMAIN meta)
                    => rec[RECORD_ATTR_VERSION] = OrEmpty(last.config.version)

C7_Witness ==
    /\ Augmented /\ IsSpan(last.span)
    /\ DOMAIN last.span.meta = {ENV_KEY}
    /\ last.span.meta[ENV_KEY] = "prod-staging"
    /\ last.config.env = "prod" /\ last.config.version = "23.45.6"
    /\ rec[RECORD_ATTR_ENV] = "prod-staging"
    /\ rec[RECORD_ATTR_VERSION] = "23.45.6"

(* C8: with no current span, dd.env is config.env and dd.version is        *)
(* config.version, each "" when the configuration value is absent, and     *)
(* dd.trace_id = dd.span_id = 0.                                           *)
C8_NoSpanUsesConfig ==
    (Augmented /\ last.span = NoSpan) =>
        /\ rec[RECORD_ATTR_ENV] = OrEmpty(last.config.env)
        /\ rec[RECORD_ATTR_VERSION] = OrEmpty(last.config.version)
        /\ rec[RECORD_ATTR_TRACE_ID] = 0
        /\ rec[RECORD_ATTR_SPAN_ID] = 0

C8_Witness ==
    /\ Augmented /\ last.span = NoSpan
    /\ last.config.env = "prod" /\ last.config.version = None
    /\ rec[RECORD_ATTR_ENV] = "prod" /\ rec[RECORD_ATTR_VERSION] = ""
    /\ rec[RECORD_ATTR_TRACE_ID] = 0 /\ rec[RECORD_ATTR_SPAN_ID] = 0

(* C9: (dd.trace_id, dd.span_id) is the span's pair when a span is current *)
(* and both its identifiers are non-zero, and (0, 0) otherwise; never a    *)
(* pair with exactly one zero.                                             *)
C9_IdsAllOrNothing ==
    Augmented =>
        /\ (IsSpan(last.span) /\ last.span.trace_id # 0 /\ last.span.span_id # 0)
                => /\ rec[RECORD_ATTR_TRACE_ID] = last.span.trace_id
                   /\ rec[RECORD_ATTR_SPAN_ID] = last.span.span_id
        /\ ~(IsSpan(last.span) /\ last.span.trace_id # 0 /\ last.span.span_id # 0)
                => /\ rec[RECORD_ATTR_TRACE_ID] = 0
                   /\ rec[RECORD_ATTR_SPAN_ID] = 0
        /\ (rec[RECORD_ATTR_TRACE_ID] = 0) <=> (rec[RECORD_ATTR_SPAN_ID] = 0)

C9_Witness ==
    /\ Augmented /\ IsSpan(last.span)
    /\ last.span.trace_id = 2 /\ last.span.span_id = 0
    /\ rec[RECORD_ATTR_TRACE_ID] = 0 /\ rec[RECORD_ATTR_SPAN_ID] = 0

(* C10: with a current span whose tags hold the secondary service-version  *)
(* tag with value v and no primary version tag, dd.version is v, whether   *)
(* config.version is absent or set.                                        *)
C10_SecondaryVersionTag ==
    (/\ Augmented /\ IsSpan(last.span)
     /\ SERVICE_VERSION_KEY \in DOMAIN last.span.meta
     /\ VERSION_KEY \notin DOMAIN last.span.meta)
        => rec[RECORD_ATTR_VERSION] = last.span.meta[SERVICE_VERSION_KEY]

(* C11: with a current span whose tags hold both the primary version tag   *)
(* (value p) and the secondary service-version tag (value s), dd.version   *)
(* is p.                                                                   *)
C11_PrimaryVersionWins ==
    (/\ Augmented /\ IsSpan(last.span)
     /\ VERSION_KEY \in DOMAIN last.span.meta
     /\ SERVICE_VERSION_KEY \in DOMAIN last.span.meta)
        => rec[RECORD_ATTR_VERSION] = last.span.meta[VERSION_KEY]

C11_Witness ==
    /\ Augmented /\ IsSpan(last.span)
    /\ VERSION_KEY \in DOMAIN last.span.meta
    /\ SERVICE_VERSION_KEY \in DOMAIN last.span.meta
    /\ last.span.meta[VERSION_KEY] = "1.2.3"
    /\ last.span.meta[SERVICE_VERSION_KEY] = "prod-staging"
    /\ last.config.version = "23.45.6"
    /\ rec[RECORD_ATTR_VERSION] = "1.2.3"

(* C12: when the selected tracer raises on current_span() during a record  *)
(* construction through the hook, the call still returns the record, with  *)
(* dd.env / dd.version from the configuration (or "") and both identifiers *)
(* 0; the failure does not reach the logging call.                         *)
C12_TracerFailureDegrades ==
    (last.called /\ last.installed >= 1 /\ last.span = Raises) =>
        /\ ~last.out.raised
        /\ DDFields \subseteq DOMAIN rec
        /\ rec[RECORD_ATTR_ENV] = OrEmpty(last.config.env)
        /\ rec[RECORD_ATTR_VERSION] = OrEmpty(last.config.version)
        /\ rec[RECORD_ATTR_TRACE_ID] = 0
        /\ rec[RECORD_ATTR_SPAN_ID] = 0

(* C13: with a current span whose tags hold no version and no environment  *)
(* tag, dd.env and dd.version are config.env and config.version (or ""     *)
(* when absent), and dd.trace_id / dd.span_id are still the span's         *)
(* identifiers when both are non-zero.                                     *)
C13_UntaggedSpanFallback ==
    (/\ Augmented /\ IsSpan(last.span)
     /\ DOMAIN last.span.meta \cap TagKeys = {})
        => /\ rec[RECORD_ATTR_ENV] = OrEmpty(last.config.env)
           /\ rec[RECORD_ATTR_VERSION] = OrEmpty(last.config.version)
           /\ (last.span.trace_id # 0 /\ last.span.span_id # 0)
                => /\ rec[RECORD_ATTR_TRACE_ID] = last.span.trace_id
                   /\ rec[RECORD_ATTR_SPAN_ID] = last.span.span_id

C13_Witness ==
    /\ Augmented /\ IsSpan(last.span)
    /\ DOMAIN last.span.meta = {}
    /\ last.span.trace_id = 1 /\ last.span.span_id = 2
    /\ last.config.env = None /\ last.config.version = None
    /\ rec[RECORD_ATTR_ENV] = "" /\ rec[RECORD_ATTR_VERSION] = ""
    /\ rec[RECORD_ATTR_TRACE_ID] = 1 /\ rec[RECORD_ATTR_SPAN_ID] = 2

\* the identifiers the all-or-nothing rule gives for a tracer's answer
IdsOf(answer) ==
    IF IsSpan(answer) /\ answer.trace_id # 0 /\ answer.span_id # 0
    THEN <<answer.trace_id, answer.span_id>>
    ELSE <<0, 0>>

\* the environment the precedence rule gives for a tracer's answer
EnvOf(answer, c) ==
    IF IsSpan(answer) /\ ENV_KEY \in DOMAIN answer.meta
    THEN answer.meta[ENV_KEY]
    ELSE OrEmpty(c.env)

(* C14: each call through the hook takes the current span from             *)
(* config.logging.tracer when it is set at that call and from the default  *)
(* tracer only when it is not; the record follows the answer of that       *)
(* tracer alone (a span of the other tracer, or its failure, has no        *)
(* effect), and the slot is read again at every call.                      *)
C14_TracerSelection ==
    (last.called /\ last.installed >= 1) =>
        LET asked == IF last.config.logging_tracer # None
                     THEN last.config.logging_tracer
                     ELSE ddtrace_tracer
            answer == current_span[asked]
        IN  /\ last.span = answer
            /\ last.out.raised <=> (answer = Raises)
            /\ ~last.out.raised =>
                /\ <<rec[RECORD_ATTR_TRACE_ID], rec[RECORD_ATTR_SPAN_ID]>> = IdsOf(answer)
                /\ rec[RECORD_ATTR_ENV] = EnvOf(answer, last.config)

\* the slot was None at the start, so this call came after the application
\* set it; the default tracer holds a span that the record does not show
C14_Witness ==
    /\ Augmented
    /\ last.config.logging_tracer = custom_tracer
    /\ current_span[custom_tracer] = NoSpan
    /\ IsSpan(current_span[ddtrace_tracer])
    /\ current_span[ddtrace_tracer].trace_id = 2
    /\ current_span[ddtrace_tracer].span_id = 1
    /\ ENV_KEY \in DOMAIN current_span[ddtrace_tracer].meta
    /\ rec[RECORD_ATTR_TRACE_ID] = 0 /\ rec[RECORD_ATTR_SPAN_ID] = 0
    /\ rec[RECORD_ATTR_ENV] = OrEmpty(last.config.env)

(* C15: a call through one layer of the hook runs the original record      *)
(* construction exactly once, writes the four fields on the record that    *)
(* construction returned and returns that record: every other attribute is *)
(* the original's, and the four fields hold the values the hook resolved,  *)
(* also where the original construction had set an attribute of the same   *)
(* name.                                                                   *)
C15_HookOrdering ==
    (Augmented /\ last.out.hooks = 1) =>
        LET built == OriginalMakeRecord(last.extra)
        IN  /\ last.out.built = 1
            /\ last.out.written = DDFields
            /\ DOMAIN rec = DOMAIN built \cup DDFields
            /\ \A k \in DOMAIN built \ DDFields : rec[k] = built[k]
            /\ rec[RECORD_ATTR_ENV] = EnvOf(last.span, last.config)
            /\ <<rec[RECORD_ATTR_TRACE_ID], rec[RECORD_ATTR_SPAN_ID]>> = IdsOf(last.span)

C15_Witness ==
    /\ Augmented /\ last.out.hooks = 1 /\ last.out.built = 1
    /\ RECORD_ATTR_ENV \in DOMAIN last.extra
    /\ last.extra[RECORD_ATTR_ENV] = "user"
    /\ last.span = NoSpan /\ last.config.env = "prod"
    /\ rec[RECORD_ATTR_ENV] = "prod"
    /\ rec["msg"] = "Hello!"

\* empty or otherwise falsy
Falsy(value) == value = None \/ value = ""

(* C16: dd.env and dd.version are never None; each is "" exactly when the  *)
(* value selected by precedence (the span's tag when its key is present,   *)
(* else the configuration value) is empty or falsy, and is that value      *)
(* otherwise; a tag present with an empty value gives "" and not the       *)
(* configuration value. (For dd.version the tag is the primary version     *)
(* tag; spans tagged with the secondary key only are the case of C10.)     *)
C16_FalsyToDefault ==
    Augmented =>
        LET meta == IF IsSpan(last.span) THEN last.span.meta ELSE NoTags
            env == IF ENV_KEY \in DOMAIN meta THEN meta[ENV_KEY] ELSE last.config.env
            version == IF VERSION_KEY \in DOMAIN meta THEN meta[VERSION_KEY]
                       ELSE last.config.version
        IN  /\ rec[RECORD_ATTR_ENV] # None
            /\ rec[RECORD_ATTR_VERSION] # None
            /\ (rec[RECORD_ATTR_ENV] = "") <=> Falsy(env)
            /\ ~Falsy(env) => rec[RECORD_ATTR_ENV] = env
            /\ (SERVICE_VERSION_KEY \notin DOMAIN meta \/ VERSION_KEY \in DOMAIN meta) =>
                /\ (rec[RECORD_ATTR_VERSION] = "") <=> Falsy(version)
                /\ ~Falsy(version) => rec[RECORD_ATTR_VERSION] = version

C16_Witness ==
    /\ Augmented /\ IsSpan(last.span)
    /\ ENV_KEY \in DOMAIN last.span.meta /\ last.span.meta[ENV_KEY] = ""
    /\ VERSION_KEY \in DOMAIN last.span.meta /\ last.span.meta[VERSION_KEY] = ""
    /\ last.config.env = "prod" /\ last.config.version = "23.45.6"
    /\ rec[RECORD_ATTR_ENV] = "" /\ rec[RECORD_ATTR_VERSION] = ""

\* the version the precedence rule of patch.py gives for a tracer's answer
VersionOf(answer, c) ==
    IF IsSpan(answer) /\ VERSION_KEY \in DOMAIN answer.meta
    THEN answer.meta[VERSION_KEY]
    ELSE OrEmpty(c.version)

(* C17: a step of a hook invocation changes only that invocation's record, *)
(* and of it only the four dd.* fields: the flag, the installed wrapper,   *)
(* the callers of patch()/unpatch(), ddtrace.config (env, version, tracer  *)
(* slot), every tracer's span and the records of the other threads stay as *)
(* they are; so whatever the interleaving of concurrent constructions,     *)
(* each returned record is the original's record plus the values resolved  *)
(* from the configuration and the selected tracer's span.                  *)
C17_HookFrame ==
    /\ [][\A t \in Threads : hook'[t] # hook[t] =>
            /\ \A u \in Threads \ {t} : hook'[u] = hook[u]
            /\ UNCHANGED <<datadog_patch, makeRecord, pc, original, calls,
                           config, current_span>>
            /\ hook[t].at \in {"version", "env", "ids"} =>
                /\ hook'[t].span = hook[t].span
                /\ hook'[t].extra = hook[t].extra
                /\ DOMAIN hook'[t].record \subseteq DOMAIN hook[t].record \cup DDFields
                /\ \A k \in DOMAIN hook[t].record \ DDFields :
                        hook'[t].record[k] = hook[t].record[k]]_vars
    /\ [](\A t \in Threads : hook[t].at = "returned" =>
            LET answer == current_span[Selected(config)]
                built == OriginalMakeRecord(hook[t].extra)
                r == hook[t].record
            IN  /\ DOMAIN r = DOMAIN built \cup DDFields
                /\ \A k \in DOMAIN built \ DDFields : r[k] = built[k]
                /\ r[RECORD_ATTR_ENV] = EnvOf(answer, config)
                /\ r[RECORD_ATTR_VERSION] = VersionOf(answer, config)
                /\ <<r[RECORD_ATTR_TRACE_ID], r[RECORD_ATTR_SPAN_ID]>> = IdsOf(answer))

\* thread 1 holds its returned record while thread 2 is in the middle of
\* its own construction, with another `extra`
C17_Witness ==
    /\ hook[1].at = "returned" /\ hook[2].at = "ids"
    /\ hook[1].extra = NoTags /\ hook[2].extra # NoTags
    /\ IsSpan(hook[1].span) /\ VERSION_KEY \in DOMAIN hook[1].span.meta
    /\ hook[1].record[RECORD_ATTR_VERSION] = "1.2.3"
    /\ hook[1].record[RECORD_ATTR_ENV] = "prod"
    /\ RECORD_ATTR_TRACE_ID \notin DOMAIN hook[2].record
    /\ config.version = None

\* the threads that are inside patch(), past its test of the flag
InsidePatch == {t \in Threads : pc[t] \in {"patch_set", "patch_wrap", "patch_install"}}

(* C18: with only patch() calls made (no unpatch()), once any of them has  *)
(* returned the wrapper is installed on Logger.makeRecord, so the caller's *)
(* next record passes the hook: no patch() returns as a no-op while        *)
(* makeRecord is still the original.                                       *)
C18_EnableEffectiveOnReturn ==
    (/\ calls # <<>>
     /\ \A i \in 1..Len(calls) : calls[i] = "patch"
     /\ Len(calls) > Cardinality(InsidePatch))
        => makeRecord >= 1

====
